---- MODULE Spec2Model ----
(***************************************************************************)
(* Donation lifecycle of the portfolio application: the CoffeePurchase     *)
(* model (main/models.py), the donation form (main/forms.py), the          *)
(* CoffeePurchaseView request handler with its simulated payment engine    *)
(* (main/views.py) and the CoffeePurchaseAdmin write paths (main/admin.py).*)
(*                                                                         *)
(* Money is counted in cents (DecimalField, decimal_places=2).  Timestamps *)
(* are readings of one clock `now`; Null (0) is the SQL NULL of paid_at.   *)
(* A row of the table and an in-memory model instance are records with the *)
(* same fields; Model.save() writes every column of the instance.  The     *)
(* fields kept are those the payment lifecycle reads or writes; name,      *)
(* email, message, currency, payment_method and the audit stamps are left  *)
(* out.                                                                    *)
(***************************************************************************)
EXTENDS Integers, Sequences, FiniteSets, TLC

\* ---------------------------------------------------------------- bounds
MaxRequests == 2      \* concurrent donation submissions
MaxTime     == 2      \* readings of the clock: 1..MaxTime
MaxFormEdits == 2     \* saves of the admin change form that publish a message
MaxViews     == 3     \* detail-page views of the post by one client
MaxAdminOps == 1      \* administrative writes in one behaviour

\* ------------------------------------------------------ program constants
Null == 0                                   \* paid_at: null=True
MinAmount == 100                            \* MinValueValidator(1.00)
AMOUNT_CHOICES == {"3.00", "5.00", "10.00"} \* CoffeePurchaseForm.AMOUNT_CHOICES
PAYMENT_STATUS == {"pending", "completed", "failed", "refunded"}

Requests == 1 .. MaxRequests
Times    == 1 .. MaxTime

\* values a client posts: a preset radio value (one of the choices, none, or
\* one outside the choices) and an optional custom amount <<cents>>
\* (NoCustom: the field left blank)
NoObject == [pk |-> -1]           \* request r holds no SiteSettings
NotRendered == <<>>               \* no thank-you page rendered yet
NoCustom == <<>>
PostedPresets == {"5.00", "", "7.00"}
PostedCustoms == {NoCustom, <<-100>>, <<0>>, <<99>>}

\* values an operator chooses for payment_status in the admin change form
SupportersLimit == 10

AdminStatuses == {"pending", "completed", "failed"}

VARIABLES
    purchases,   \* the CoffeePurchase table: purchases[id] is the row of id
    pc,          \* pc[r]: where request r is in CoffeePurchaseView.post
    inst,        \* inst[r]: form.instance / self.object of request r
    posted,      \* posted[r]: the preset and custom amount request r posted
    now,         \* the clock read by timezone.now() and time.time()
    adminOps,    \* number of administrative writes so far
    everPaid,    \* history: everPaid[id] iff row id was ever persisted paid
    reported,    \* the count in the last bulk action's message_user
    recent_supporters,    \* the listing last rendered on the donation page
    coffee_count_display, \* the last 'Coffees' cell rendered by the admin
    display_name_cell,    \* the last display_name cell rendered by the admin
    thankyou,             \* thankyou[r]: the purchase on r's thank-you page
    settings,    \* the SiteSettings table: the set of its rows
    settings_obj,  \* settings_obj[r]: the SiteSettings instance r holds
    view_count,  \* the stored view_count of the blog post
    viewer       \* viewer[r]: client r's BlogDetailView.get, the view_count
                 \* of its self.object and the responses r has received

\* what the pages last rendered show
rendered ==
    <<recent_supporters, coffee_count_display, display_name_cell, thankyou>>

\* the SiteSettings and BlogPost side of the site
site == <<settings, settings_obj, view_count, viewer>>

vars == <<purchases, pc, inst, posted, now, adminOps, everPaid, reported,
         recent_supporters, coffee_count_display, display_name_cell,
         thankyou, settings, settings_obj, view_count, viewer>>

\* ------------------------------------------------------------ the model
\* Decimal value of a posted choice, in cents
ToCents(choice) ==
    CASE choice = "3.00"  -> 300
      [] choice = "5.00"  -> 500
      [] choice = "7.00"  -> 700
      [] choice = "10.00" -> 1000
      [] OTHER            -> 0

\* NewInstance with is_paid defaulting to True
NewInstancePaid ==
    [id |-> 0, amount |-> 0, payment_status |-> "pending", is_paid |-> TRUE,
     paid_at |-> Null, transaction_id |-> <<>>, mpesa_code |-> <<>>,
     public_message |-> FALSE, currency |-> "USD",
     payment_method |-> "mpesa"]

\* a CoffeePurchase() instance with the field defaults, not yet saved
NewInstance ==
    [id |-> 0, amount |-> 0, payment_status |-> "pending", is_paid |-> FALSE,
     paid_at |-> Null, transaction_id |-> <<>>, mpesa_code |-> <<>>,
     public_message |-> FALSE, currency |-> "USD",
     payment_method |-> "mpesa"]

\* save_sync without the sync of payment_status with is_paid
save_sync_unsynced(self, t) ==
    IF self.is_paid /\ self.payment_status = "completed" /\ self.paid_at = Null
    THEN [self EXCEPT !.paid_at = t]
    ELSE self

\* save_sync with the second branch of the sync turned around: a
\* 'completed' status forces is_paid
save_sync_status_wins(self, t) ==
    LET stamped == IF self.is_paid /\ self.payment_status = "completed"
                      /\ self.paid_at = Null
                   THEN [self EXCEPT !.paid_at = t]
                   ELSE self
    IN  IF stamped.is_paid /\ stamped.payment_status # "completed"
        THEN [stamped EXCEPT !.payment_status = "completed"]
        ELSE IF ~stamped.is_paid /\ stamped.payment_status = "completed"
             THEN [stamped EXCEPT !.is_paid = TRUE]
             ELSE stamped

\* CoffeePurchase.save up to the call of super().save: paid_at stamp, then
\* the payment_status / is_paid sync
save_sync(self, t) ==
    LET stamped == IF self.is_paid /\ self.payment_status = "completed"
                      /\ self.paid_at = Null
                   THEN [self EXCEPT !.paid_at = t]
                   ELSE self
    IN  IF stamped.is_paid /\ stamped.payment_status # "completed"
        THEN [stamped EXCEPT !.payment_status = "completed"]
        ELSE IF ~stamped.is_paid /\ stamped.payment_status = "completed"
             THEN [stamped EXCEPT !.payment_status = "pending"]
             ELSE stamped

\* the instance as CoffeePurchase.save leaves it and writes it: an unsaved
\* instance gets the next id of the table
save(self, t, table) ==
    LET synced == save_sync(self, t)
    IN  IF synced.id = 0 THEN [synced EXCEPT !.id = Len(table) + 1] ELSE synced

\* Written whose UPDATE has no WHERE id = ...: every row takes the columns
WrittenEverywhere(table, saved) ==
    IF saved.id = Len(table) + 1
    THEN Append(table, saved)
    ELSE [i \in 1 .. Len(table) |-> saved]

\* the table after writing a saved instance: INSERT of a new id, else UPDATE
\* of every column
Written(table, saved) ==
    IF saved.id = Len(table) + 1
    THEN Append(table, saved)
    ELSE [table EXCEPT ![saved.id] = saved]

\* mark_as_paid that forgets to set is_paid
mark_as_paid_unflagged(self, transaction_id, mpesa_code, t) ==
    LET a == [self EXCEPT !.payment_status = "completed", !.paid_at = t]
        b == IF transaction_id # <<>>
             THEN [a EXCEPT !.transaction_id = transaction_id] ELSE a
    IN  IF mpesa_code # <<>> THEN [b EXCEPT !.mpesa_code = mpesa_code] ELSE b

\* CoffeePurchase.mark_as_paid up to its call of self.save()
mark_as_paid(self, transaction_id, mpesa_code, t) ==
    LET a == [self EXCEPT !.is_paid = TRUE, !.payment_status = "completed",
                          !.paid_at = t]
        b == IF transaction_id # <<>>
             THEN [a EXCEPT !.transaction_id = transaction_id] ELSE a
    IN  IF mpesa_code # <<>> THEN [b EXCEPT !.mpesa_code = mpesa_code] ELSE b

\* CoffeePurchaseForm.clean: a truthy custom amount replaces the preset
clean(preset, custom) ==
    IF custom # NoCustom /\ custom[1] # 0 THEN custom[1] ELSE ToCents(preset)

\* form.is_valid(): the ChoiceField accepts only AMOUNT_CHOICES, and the
\* model field's MinValueValidator runs on the cleaned amount
is_valid(preset, custom) ==
    /\ preset \in AMOUNT_CHOICES
    /\ clean(preset, custom) >= MinAmount

IsPaidRow(row) == row.is_paid /\ row.payment_status = "completed"

\* everPaid after the table became `table`
Remember(table) ==
    [i \in 1 .. Len(table) |->
        IsPaidRow(table[i]) \/ (i <= Len(purchases) /\ everPaid[i])]

\* what is kept of a request's instance once the request is answered: the id
\* of the record it created (0: none)
Answered(self) == [NewInstance EXCEPT !.id = self.id]

Init ==
    /\ purchases = <<>>
    /\ pc = [r \in Requests |-> "start"]
    /\ inst = [r \in Requests |-> NewInstance]
    /\ posted = [r \in Requests |-> [amount |-> "", custom_amount |-> NoCustom]]
    /\ now = 1
    /\ adminOps = 0
    /\ reported = 0
    /\ recent_supporters = <<>>
    /\ coffee_count_display = [id |-> 0, raised |-> FALSE, value |-> 0]
    /\ display_name_cell = [id |-> 0, value |-> <<>>]
    /\ thankyou = [r \in Requests |-> NotRendered]
    /\ settings = {}
    /\ settings_obj = [r \in Requests |-> NoObject]
    /\ view_count = 0
    /\ viewer = [r \in Requests |->
                    [pc |-> "start", view_count |-> 0, views |-> 0]]
    /\ everPaid = <<>>

\* time passes
Tick ==
    /\ now < MaxTime
    /\ now' = now + 1
    /\ UNCHANGED <<purchases, pc, inst, posted, adminOps, reported,
                   everPaid, rendered, site>>

\* requests are numbered in the order in which their POST is handled
InOrder(r) == \A q \in 1 .. r - 1 : pc[q] # "start"

\* POST of the donation form: validation, then form_valid up to form.save()
Submit(r) ==
    /\ pc[r] = "start"
    /\ InOrder(r)
    /\ \E preset \in PostedPresets, custom \in PostedCustoms :
         /\ posted' = [posted EXCEPT ![r] = [amount |-> preset,
                                             custom_amount |-> custom]]
         /\ IF is_valid(preset, custom)
            THEN LET obj == save([NewInstance EXCEPT
                                    !.amount = clean(preset, custom)],
                                 now, purchases)
                 IN  /\ purchases' = Written(purchases, obj)
                     /\ inst' = [inst EXCEPT ![r] = obj]
                     /\ pc' = [pc EXCEPT ![r] = "saved"]
            ELSE /\ pc' = [pc EXCEPT ![r] = "form_invalid"]
                 /\ UNCHANGED <<purchases, inst>>
    /\ everPaid' = Remember(purchases')
    /\ UNCHANGED <<now, adminOps, reported, rendered, site>>

\* storage failure in form.save(): caught by form_valid's except clause
SubmitFails(r) ==
    /\ pc[r] = "start"
    /\ InOrder(r)
    /\ \E preset \in PostedPresets, custom \in PostedCustoms :
         /\ is_valid(preset, custom)
         /\ posted' = [posted EXCEPT ![r] = [amount |-> preset,
                                             custom_amount |-> custom]]
    /\ pc' = [pc EXCEPT ![r] = "error"]
    /\ UNCHANGED <<purchases, inst, now, adminOps, reported, everPaid,
                   rendered, site>>

\* MpesaCode built from the number of rows instead of the record's id
MpesaCodeOfCount(purchase) == <<"MPE", Len(purchases)>>

\* the arguments process_payment passes to mark_as_paid
TransactionId(purchase, t) == <<"TXN", purchase.id, t>>

MpesaCode(purchase) == <<"MPE", purchase.id>>

\* process_payment after its sleep: mark_as_paid on the view's instance,
\* saved, and True returned
ProcessPayment(r) ==
    /\ pc[r] = "saved"
    /\ LET obj == save(mark_as_paid(inst[r], TransactionId(inst[r], now),
                                    MpesaCode(inst[r]), now),
                       now, purchases)
       IN  /\ purchases' = Written(purchases, obj)
           /\ inst' = [inst EXCEPT ![r] = obj]
    /\ pc' = [pc EXCEPT ![r] = "charged"]
    /\ everPaid' = Remember(purchases')
    /\ UNCHANGED <<posted, now, adminOps, reported, rendered, site>>

\* ProcessPaymentFails that records the failure on the row
ProcessPaymentFailsRecording(r) ==
    /\ pc[r] = "saved"
    /\ pc' = [pc EXCEPT ![r] = "payment_failed"]
    /\ inst' = [inst EXCEPT ![r] = Answered(inst[r])]
    /\ purchases' = [purchases EXCEPT ![inst[r].id].payment_status = "failed"]
    /\ UNCHANGED <<posted, now, adminOps, reported, everPaid, rendered, site>>

\* process_payment's except clause: the sleep, or the save inside
\* mark_as_paid, raised; nothing is written, False is returned and
\* form_valid answers with the error message and form_invalid
ProcessPaymentFails(r) ==
    /\ pc[r] = "saved"
    /\ pc' = [pc EXCEPT ![r] = "payment_failed"]
    /\ inst' = [inst EXCEPT ![r] = Answered(inst[r])]
    /\ UNCHANGED <<purchases, posted, now, adminOps, reported, everPaid,
                   rendered, site>>

\* payment_success: super().form_valid(form) saves form.instance again and
\* redirects to success_url
FormValidSuper(r) ==
    /\ pc[r] = "charged"
    /\ LET obj == save(inst[r], now, purchases)
       IN  /\ purchases' = Written(purchases, obj)
           /\ inst' = [inst EXCEPT ![r] = Answered(obj)]
    /\ pc' = [pc EXCEPT ![r] = "redirect"]
    /\ everPaid' = Remember(purchases')
    /\ UNCHANGED <<posted, now, adminOps, reported, rendered, site>>

\* an exception after payment_success (messages.success or the second
\* form.save()): caught by form_valid's except clause
FormValidSuperFails(r) ==
    /\ pc[r] = "charged"
    /\ pc' = [pc EXCEPT ![r] = "error"]
    /\ inst' = [inst EXCEPT ![r] = Answered(inst[r])]
    /\ UNCHANGED <<purchases, posted, now, adminOps, reported, everPaid,
                   rendered, site>>

\* QuerysetUpdate that also resets paid_at when it marks rows unpaid
QuerysetUpdateResetting(table, ids, paid, status) ==
    [i \in 1 .. Len(table) |->
        IF i \in ids
        THEN [table[i] EXCEPT !.is_paid = paid, !.payment_status = status,
                              !.paid_at = IF paid THEN @ ELSE Null]
        ELSE table[i]]

\* QuerysetUpdate that also stamps paid_at on the rows it marks paid
QuerysetUpdateStamping(table, ids, paid, status) ==
    [i \in 1 .. Len(table) |->
        IF i \in ids
        THEN [table[i] EXCEPT !.is_paid = paid, !.payment_status = status,
                              !.paid_at = IF paid /\ @ = Null THEN now ELSE @]
        ELSE table[i]]

\* queryset.update(is_paid=..., payment_status=...) on the rows of `ids`:
\* the two named columns only, Model.save is not called
QuerysetUpdate(table, ids, paid, status) ==
    [i \in 1 .. Len(table) |->
        IF i \in ids
        THEN [table[i] EXCEPT !.is_paid = paid, !.payment_status = status]
        ELSE table[i]]

\* the number of rows of `ids` whose two columns had another value
RowsChanged(table, ids, paid, status) ==
    Cardinality({i \in ids \cap (1 .. Len(table)) :
                    \/ table[i].is_paid # paid
                    \/ table[i].payment_status # status})

\* the value queryset.update returns, shown by message_user: the number of
\* rows the queryset matched, changed or not
RowsMatched(table, ids, paid, status) ==
    Cardinality(ids \cap (1 .. Len(table)))

\* CoffeePurchaseAdmin.mark_as_paid on the selected rows
admin_mark_as_paid ==
    /\ adminOps < MaxAdminOps
    /\ \E ids \in SUBSET (1 .. Len(purchases)) :
         /\ ids # {}
         /\ purchases' = QuerysetUpdate(purchases, ids, TRUE, "completed")
         /\ reported' = RowsMatched(purchases, ids, TRUE, "completed")
    /\ adminOps' = adminOps + 1
    /\ everPaid' = Remember(purchases')
    /\ UNCHANGED <<pc, inst, posted, now, rendered, site>>

\* CoffeePurchaseAdmin.mark_as_pending on the selected rows
admin_mark_as_pending ==
    /\ adminOps < MaxAdminOps
    /\ \E ids \in SUBSET (1 .. Len(purchases)) :
         /\ ids # {}
         /\ purchases' = QuerysetUpdate(purchases, ids, FALSE, "pending")
         /\ reported' = RowsMatched(purchases, ids, FALSE, "pending")
    /\ adminOps' = adminOps + 1
    /\ everPaid' = Remember(purchases')
    /\ UNCHANGED <<pc, inst, posted, now, rendered, site>>

\* the admin change form of one row: is_paid and payment_status are editable
\* (paid_at is read-only) and set independently of each other, then save().
\* The admin view fetches, assigns and saves the row in one transaction.
AdminChange ==
    /\ adminOps < MaxAdminOps
    /\ \E id \in 1 .. Len(purchases), paid \in BOOLEAN,
          status \in AdminStatuses :
         purchases' = Written(purchases,
             save([purchases[id] EXCEPT !.is_paid = paid,
                                        !.payment_status = status],
                  now, purchases))
    /\ adminOps' = adminOps + 1
    /\ everPaid' = Remember(purchases')
    /\ UNCHANGED <<pc, inst, posted, now, reported, rendered, site>>

Donation ==
    \E r \in Requests : \/ Submit(r)
                        \/ ProcessPayment(r)
                        \/ FormValidSuper(r)

Faults ==
    \E r \in Requests : \/ SubmitFails(r)
                        \/ ProcessPaymentFails(r)
                        \/ FormValidSuperFails(r)

Admin == admin_mark_as_paid \/ admin_mark_as_pending \/ AdminChange

Next == Tick \/ Donation \/ Faults \/ Admin

\* submissions, the engine, storage failures and the administrative writes
Spec == Init /\ [][Next]_vars

NextNoAdmin == Tick \/ Donation \/ Faults

\* submissions and the engine alone, storage failures included
SpecNoAdmin == Init /\ [][NextNoAdmin]_vars

\* no storage failure: the code of the view as written, scheduled fairly
NextLive == Tick \/ Donation

SpecLive ==
    /\ Init
    /\ [][NextLive]_vars
    /\ \A r \in Requests : /\ WF_vars(ProcessPayment(r))
                           /\ WF_vars(FormValidSuper(r))

\* ------------------------------------------- the model class used directly
\* One instance, inst[1], held by a caller of the model API: created, then
\* assigned to, saved and marked paid in any order.

\* CoffeePurchase.objects.create(amount=5.00)
ModelCreate ==
    /\ pc[1] = "start"
    /\ LET obj == save([NewInstance EXCEPT !.amount = 500], now, purchases)
       IN  /\ purchases' = Written(purchases, obj)
           /\ inst' = [inst EXCEPT ![1] = obj]
    /\ pc' = [pc EXCEPT ![1] = "held"]
    /\ everPaid' = Remember(purchases')
    /\ UNCHANGED <<posted, now, adminOps, reported, rendered, site>>

\* the caller assigns is_paid and payment_status on the instance
ModelAssign ==
    /\ pc[1] = "held"
    /\ \E paid \in BOOLEAN, status \in PAYMENT_STATUS :
         inst' = [inst EXCEPT ![1].is_paid = paid, ![1].payment_status = status]
    /\ UNCHANGED <<purchases, pc, posted, now, adminOps, reported,
                   everPaid, rendered, site>>

\* instance.save()
ModelSave ==
    /\ pc[1] = "held"
    /\ LET obj == save(inst[1], now, purchases)
       IN  /\ purchases' = Written(purchases, obj)
           /\ inst' = [inst EXCEPT ![1] = obj]
    /\ everPaid' = Remember(purchases')
    /\ UNCHANGED <<pc, posted, now, adminOps, reported, rendered, site>>

\* instance.mark_as_paid(transaction_id=..., mpesa_code=...), either
\* argument optional
ModelMarkAsPaid ==
    /\ pc[1] = "held"
    /\ \E txn \in {<<>>, TransactionId(inst[1], now)},
          code \in {<<>>, MpesaCode(inst[1])} :
         LET obj == save(mark_as_paid(inst[1], txn, code, now), now, purchases)
         IN  /\ purchases' = Written(purchases, obj)
             /\ inst' = [inst EXCEPT ![1] = obj]
    /\ everPaid' = Remember(purchases')
    /\ UNCHANGED <<pc, posted, now, adminOps, reported, rendered, site>>

NextModel == Tick \/ ModelCreate \/ ModelAssign \/ ModelSave \/ ModelMarkAsPaid

SpecModel == Init /\ [][NextModel]_vars

\* ------------------------------------------------- the audit time stamps
\* Rows that also carry TimeStampedModel's created_at and updated_at, written
\* by Model.save and by the bulk actions of the admin.

\* a CoffeePurchase() instance with the two fields of TimeStampedModel
StampedInstance == NewInstance @@ [created_at |-> Null, updated_at |-> Null]

\* DateTimeField.pre_save in Model.save: auto_now_add stamps created_at on
\* the insert, auto_now stamps updated_at on every save
stamped_save(self, t, table) ==
    LET saved == save(self, t, table)
    IN  IF self.id = 0
        THEN [saved EXCEPT !.created_at = t, !.updated_at = t]
        ELSE [saved EXCEPT !.updated_at = t]

\* CoffeePurchase.objects.create(amount=5.00) by caller r
StampedCreate(r) ==
    /\ pc[r] = "start"
    /\ InOrder(r)
    /\ LET obj == stamped_save([StampedInstance EXCEPT !.amount = 500],
                               now, purchases)
       IN  /\ purchases' = Written(purchases, obj)
           /\ inst' = [inst EXCEPT ![r] = Answered(obj)]
    /\ pc' = [pc EXCEPT ![r] = "held"]
    /\ everPaid' = Remember(purchases')
    /\ UNCHANGED <<posted, now, adminOps, reported, rendered, site>>

\* caller r loads its row, assigns is_paid and calls save()
StampedSave(r) ==
    /\ pc[r] = "held"
    /\ \E paid \in BOOLEAN :
         purchases' = Written(purchases,
             stamped_save([purchases[inst[r].id] EXCEPT !.is_paid = paid],
                          now, purchases))
    /\ everPaid' = Remember(purchases')
    /\ UNCHANGED <<pc, inst, posted, now, adminOps, reported, rendered, site>>

NextStamps ==
    \/ Tick
    \/ \E r \in Requests : StampedCreate(r) \/ StampedSave(r)
    \/ admin_mark_as_paid
    \/ admin_mark_as_pending

SpecStamps == Init /\ [][NextStamps]_vars

\* ------------------------------------------------ the public supporters
\* The admin publishes a message on the change form; the donation page
\* lists the paid records whose message is public.

\* the admin change form of one row posting is_paid and public_message
\* (both in the fieldsets, neither read-only), then save()
AdminChangeForm ==
    /\ adminOps < MaxFormEdits
    /\ \E id \in 1 .. Len(purchases), paid \in BOOLEAN, public \in BOOLEAN :
         purchases' = Written(purchases,
             save([purchases[id] EXCEPT !.is_paid = paid,
                                        !.public_message = public],
                  now, purchases))
    /\ adminOps' = adminOps + 1
    /\ everPaid' = Remember(purchases')
    /\ UNCHANGED <<pc, inst, posted, now, reported, rendered, site>>

\* Matching without the public_message condition
MatchingPaid(table) ==
    {i \in 1 .. Len(table) : table[i].is_paid}

\* the rows the filter of get_context_data keeps
Matching(table) ==
    {i \in 1 .. Len(table) : table[i].is_paid /\ table[i].public_message}

\* the sort key of '-paid_at'; where a NULL sorts is the database's choice
\* (first in a descending order on PostgreSQL, last on SQLite and MySQL)
PaidAtKey(row, nullsFirst) ==
    IF row.paid_at = Null
    THEN IF nullsFirst THEN MaxTime + 1 ELSE Null
    ELSE row.paid_at

\* the orders order_by('-paid_at') may give the rows of `ids`
order_by(table, ids) ==
    {s \in [1 .. Cardinality(ids) -> ids] :
        /\ \A a, b \in DOMAIN s : a # b => s[a] # s[b]
        /\ \E nullsFirst \in BOOLEAN :
             \A a, b \in DOMAIN s :
                a < b => PaidAtKey(table[s[a]], nullsFirst)
                            >= PaidAtKey(table[s[b]], nullsFirst)}

\* the slice [:10]
Slice(s) ==
    SubSeq(s, 1, IF Len(s) < SupportersLimit THEN Len(s) ELSE SupportersLimit)

\* CoffeePurchaseView.get_context_data: GET of the donation page
GetContextData ==
    /\ \E s \in order_by(purchases, Matching(purchases)) :
         recent_supporters' = Slice(s)
    /\ UNCHANGED <<purchases, pc, inst, posted, now, adminOps, everPaid,
                   reported, coffee_count_display, site, display_name_cell,
                   thankyou>>

NextPublic ==
    \/ Tick
    \/ Donation
    \/ GetContextData
    \/ AdminChangeForm
    \/ admin_mark_as_paid
    \/ admin_mark_as_pending

SpecPublic == Init /\ [][NextPublic]_vars

\* donations, the admin's publishing and the listing, at one clock reading
NextListing ==
    \/ Donation
    \/ AdminChangeForm
    \/ GetContextData

SpecListing == Init /\ [][NextListing]_vars

\* ----------------------------------------------------- the coffee count
\* Records of several amounts are stored and the admin renders their
\* 'Coffees' cell, which reads CoffeePurchase.coffee_count.

\* amounts, in cents, of the stored records
StoredAmounts == {100, 299, 350, 500, 900}

\* a Python value: a decimal.Decimal or a float of so many hundredths
Decimal(cents) == [type |-> "Decimal", cents |-> cents]
Float(cents) == [type |-> "float", cents |-> cents]

\* x / y of Python: decimal.Decimal does not divide by a float (its
\* __truediv__ returns NotImplemented and so does float's __rtruediv__),
\* the interpreter raises TypeError
truediv(x, y) ==
    IF x.type = y.type
    THEN [raised |-> FALSE, num |-> x.cents, den |-> y.cents]
    ELSE [raised |-> TRUE, num |-> 0, den |-> 1]

\* CoffeePurchase.coffee_count: coffee_price = 3.00 is a float, the amount
\* of a stored record a Decimal; int() of the quotient truncates
coffee_count(self) ==
    LET coffee_price == Float(300)
        q == truediv(Decimal(self.amount), coffee_price)
    IN  IF q.raised
        THEN [raised |-> TRUE, value |-> 0]
        ELSE [raised |-> FALSE, value |-> q.num \div q.den]

\* CoffeePurchase.objects.create(amount=...) by caller r
CountCreate(r) ==
    /\ pc[r] = "start"
    /\ InOrder(r)
    /\ \E amount \in StoredAmounts :
         LET obj == save([NewInstance EXCEPT !.amount = amount],
                         now, purchases)
         IN  /\ purchases' = Written(purchases, obj)
             /\ inst' = [inst EXCEPT ![r] = Answered(obj)]
    /\ pc' = [pc EXCEPT ![r] = "held"]
    /\ everPaid' = Remember(purchases')
    /\ UNCHANGED <<posted, now, adminOps, reported, rendered, site>>

\* CoffeePurchaseAdmin.coffee_count_display of one row
CoffeeCountDisplay ==
    /\ \E id \in 1 .. Len(purchases) :
         coffee_count_display' =
             [id |-> id] @@ coffee_count(purchases[id])
    /\ UNCHANGED <<purchases, pc, inst, posted, now, adminOps, everPaid,
                   reported, recent_supporters, site, display_name_cell,
                   thankyou>>

NextCount ==
    \/ Tick
    \/ \E r \in Requests : CountCreate(r)
    \/ CoffeeCountDisplay
    \/ admin_mark_as_paid
    \/ admin_mark_as_pending

SpecCount == Init /\ [][NextCount]_vars

\* ----------------------------------------------------- the display name
\* Records with a name and an email, strings written as sequences of
\* characters, and the admin's display_name cell.

\* the values the forms store: stripped names, valid addresses (the local
\* part of the last one is a quoted string holding an '@')
Names == {<<>>, <<"n">>}
Emails == {<<>>, <<"e", "@", "x">>, <<"q", "e", "@", "f", "q", "@", "x">>}

AnonymousSupporter == <<"Anonymous Supporter">>

\* a CoffeePurchase() instance with its name and email
NamedInstance == NewInstance @@ [name |-> <<>>, email |-> <<>>]

\* str.split('@')[0] taking the text before the last '@' instead
RECURSIVE BeforeLastAt(_)
BeforeLastAt(str) ==
    IF str = <<>> THEN <<>>
    ELSE IF str[Len(str)] = "@" THEN SubSeq(str, 1, Len(str) - 1)
    ELSE IF \A k \in DOMAIN str : str[k] # "@" THEN str
    ELSE BeforeLastAt(SubSeq(str, 1, Len(str) - 1))

\* str.split('@')[0]: the characters before the first '@', the whole string
\* when it has none
RECURSIVE BeforeFirstAt(_)
BeforeFirstAt(str) ==
    IF str = <<>> \/ Head(str) = "@"
    THEN <<>>
    ELSE <<Head(str)>> \o BeforeFirstAt(Tail(str))

\* CoffeePurchase.display_name: the empty string is the only falsy str
display_name(self) ==
    IF self.name # <<>> THEN self.name
    ELSE IF self.email # <<>> THEN BeforeFirstAt(self.email)
    ELSE AnonymousSupporter

\* form.save() of a donation of 5.00 posted with a name and an email
NamedCreate(r) ==
    /\ pc[r] = "start"
    /\ InOrder(r)
    /\ \E name \in Names, email \in Emails :
         LET obj == save([NamedInstance EXCEPT !.amount = 500,
                                               !.name = name,
                                               !.email = email],
                         now, purchases)
         IN  /\ purchases' = Written(purchases, obj)
             /\ inst' = [inst EXCEPT ![r] = Answered(obj)]
    /\ pc' = [pc EXCEPT ![r] = "held"]
    /\ everPaid' = Remember(purchases')
    /\ UNCHANGED <<posted, now, adminOps, reported, rendered, site>>

\* the display_name cell of the admin for one row
DisplayNameCell ==
    /\ \E id \in 1 .. Len(purchases) :
         display_name_cell' =
             [id |-> id, value |-> display_name(purchases[id])]
    /\ UNCHANGED <<purchases, pc, inst, posted, now, adminOps, everPaid,
                   reported, recent_supporters, coffee_count_display,
                   thankyou, site>>

NextNames ==
    \/ \E r \in Requests : NamedCreate(r)
    \/ DisplayNameCell

SpecNames == Init /\ [][NextNames]_vars

\* ---------------------------------------------------- the site settings
\* Callers construct, load, edit and save SiteSettings instances.

SiteNames == {"Marube Snipher Abel", "Other"}

\* SiteSettings(pk=pk): the fields' defaults; pk 0 is None
NewSettings(pk) ==
    [pk |-> pk, site_name |-> "Marube Snipher Abel", coffee_enabled |-> TRUE]

\* Model.save: UPDATE of the row of the instance's pk, INSERT when the
\* UPDATE matched no row
ModelSaveRow(table, self) ==
    {row \in table : row.pk # self.pk} \cup {self}

\* SiteSettings.save without the assignment of pk: a None pk gets the next
\* free value
settings_save_keeping_pk(table, self) ==
    IF self.pk = 0
    THEN ModelSaveRow(table, [self EXCEPT !.pk = Cardinality(table) + 1])
    ELSE ModelSaveRow(table, self)

\* SiteSettings.save: self.pk = 1, then Model.save
settings_save(table, self) ==
    ModelSaveRow(table, [self EXCEPT !.pk = 1])

\* r constructs an instance, with no pk or with one of its own choice
SettingsNew(r) ==
    /\ settings_obj[r] = NoObject
    /\ \E pk \in {0, 2} :
         settings_obj' = [settings_obj EXCEPT ![r] = NewSettings(pk)]
    /\ UNCHANGED <<purchases, pc, inst, posted, now, adminOps, everPaid,
                   reported, rendered, settings, view_count, viewer>>

\* SiteSettings.load: get_or_create(pk=1), which creates through save()
SettingsLoad(r) ==
    /\ settings_obj[r] = NoObject
    /\ IF \E row \in settings : row.pk = 1
       THEN /\ settings_obj' = [settings_obj EXCEPT
                   ![r] = CHOOSE row \in settings : row.pk = 1]
            /\ UNCHANGED settings
       ELSE /\ settings' = settings_save(settings, NewSettings(1))
            /\ settings_obj' = [settings_obj EXCEPT ![r] = NewSettings(1)]
    /\ UNCHANGED <<purchases, pc, inst, posted, now, adminOps, everPaid,
                   reported, rendered, view_count, viewer>>

\* r assigns fields of the instance it holds
SettingsAssign(r) ==
    /\ settings_obj[r] # NoObject
    /\ \E name \in SiteNames, enabled \in BOOLEAN :
         settings_obj' = [settings_obj EXCEPT
             ![r] = [@ EXCEPT !.site_name = name, !.coffee_enabled = enabled]]
    /\ UNCHANGED <<purchases, pc, inst, posted, now, adminOps, everPaid,
                   reported, rendered, settings, view_count, viewer>>

\* r calls save() on the instance it holds and drops it
SettingsSave(r) ==
    /\ settings_obj[r] # NoObject
    /\ settings' = settings_save(settings, settings_obj[r])
    /\ settings_obj' = [settings_obj EXCEPT ![r] = NoObject]
    /\ UNCHANGED <<purchases, pc, inst, posted, now, adminOps, everPaid,
                   reported, rendered, view_count, viewer>>

NextSettings ==
    \E r \in Requests : \/ SettingsNew(r)
                        \/ SettingsLoad(r)
                        \/ SettingsAssign(r)
                        \/ SettingsSave(r)

SpecSettings == Init /\ [][NextSettings]_vars

\* ------------------------------------------------------- the blog post
\* Clients view the detail page of one published post.

\* super().get(): get_object() reads the post, the page is rendered
BlogGet(r) ==
    /\ viewer[r].pc = "start"
    /\ viewer[r].views < MaxViews
    /\ viewer' = [viewer EXCEPT ![r] = [@ EXCEPT !.pc = "fetched",
                                                  !.view_count = view_count]]
    /\ UNCHANGED <<purchases, pc, inst, posted, now, adminOps, everPaid,
                   reported, rendered, settings, settings_obj, view_count>>

\* increment_view_count on self.object: view_count += 1 on the instance,
\* save(update_fields=['view_count']); then the response is returned
IncrementViewCount(r) ==
    /\ viewer[r].pc = "fetched"
    /\ view_count' = viewer[r].view_count + 1
    /\ viewer' = [viewer EXCEPT ![r] = [@ EXCEPT !.pc = "start",
                                                  !.view_count = @ + 1,
                                                  !.views = @ + 1]]
    /\ UNCHANGED <<purchases, pc, inst, posted, now, adminOps, everPaid,
                   reported, rendered, settings, settings_obj>>

NextBlog == \E r \in Requests : BlogGet(r) \/ IncrementViewCount(r)

SpecBlog == Init /\ [][NextBlog]_vars

\* ---------------------------------------------------- the thank-you page
\* Donations whose rows carry created_at, each followed by the GET of the
\* thank-you page its redirect leads to.

\* form_valid up to form.save(): the row is inserted with its created_at
ThanksSubmit(r) ==
    /\ pc[r] = "start"
    /\ InOrder(r)
    /\ LET obj == stamped_save([StampedInstance EXCEPT !.amount = 500],
                               now, purchases)
       IN  /\ purchases' = Written(purchases, obj)
           /\ inst' = [inst EXCEPT ![r] = obj]
    /\ pc' = [pc EXCEPT ![r] = "saved"]
    /\ everPaid' = Remember(purchases')
    /\ UNCHANGED <<posted, now, adminOps, reported, rendered, site>>

\* process_payment after its sleep: mark_as_paid and its save
ThanksPay(r) ==
    /\ pc[r] = "saved"
    /\ LET obj == stamped_save(
                      mark_as_paid(inst[r], TransactionId(inst[r], now),
                                   MpesaCode(inst[r]), now),
                      now, purchases)
       IN  /\ purchases' = Written(purchases, obj)
           /\ inst' = [inst EXCEPT ![r] = obj]
    /\ pc' = [pc EXCEPT ![r] = "charged"]
    /\ everPaid' = Remember(purchases')
    /\ UNCHANGED <<posted, now, adminOps, reported, rendered, site>>

\* super().form_valid: the second save and the redirect to success_url
ThanksRedirect(r) ==
    /\ pc[r] = "charged"
    /\ LET obj == stamped_save(inst[r], now, purchases)
       IN  /\ purchases' = Written(purchases, obj)
           /\ inst' = [inst EXCEPT ![r] = Answered(obj)]
    /\ pc' = [pc EXCEPT ![r] = "redirect"]
    /\ everPaid' = Remember(purchases')
    /\ UNCHANGED <<posted, now, adminOps, reported, rendered, site>>

\* first() of the paid rows ordered by paid_at instead of created_at
first_by_paid_at(table) ==
    LET paid == {i \in 1 .. Len(table) : table[i].is_paid}
    IN  IF paid = {} THEN {0}
        ELSE {i \in paid : \A j \in paid : table[j].paid_at <= table[i].paid_at}

\* filter(is_paid=True).order_by('-created_at').first(): the ids it may
\* return, 0 for None; rows of equal created_at come in any order
first_by_created_at(table) ==
    LET paid == {i \in 1 .. Len(table) : table[i].is_paid}
    IN  IF paid = {} THEN {0}
        ELSE {i \in paid :
                \A j \in paid : table[j].created_at <= table[i].created_at}

\* coffee_thankyou: the GET that follows r's redirect
CoffeeThankyou(r) ==
    /\ pc[r] = "redirect"
    /\ \E id \in first_by_created_at(purchases) :
         thankyou' = [thankyou EXCEPT ![r] = <<id>>]
    /\ pc' = [pc EXCEPT ![r] = "thanked"]
    /\ UNCHANGED <<purchases, inst, posted, now, adminOps, everPaid,
                   reported, recent_supporters, coffee_count_display,
                   display_name_cell, site>>

NextThanks ==
    \/ Tick
    \/ \E r \in Requests : \/ ThanksSubmit(r)
                           \/ ThanksPay(r)
                           \/ ThanksRedirect(r)
                           \/ CoffeeThankyou(r)
    \/ admin_mark_as_pending

SpecThanks == Init /\ [][NextThanks]_vars

\* ================================================================ claims
Ids == 1 .. Len(purchases)

\* the row a request created, as created by form.save()
AsCreated(row) ==
    /\ row.payment_status = "pending"
    /\ ~row.is_paid
    /\ row.paid_at = Null
    /\ row.transaction_id = <<>>
    /\ row.mpesa_code = <<>>

\* the amount the submitter asked for: the custom amount when one was
\* supplied, otherwise the selected preset
EffectiveAmount(p) ==
    IF p.custom_amount # NoCustom THEN p.custom_amount[1] ELSE ToCents(p.amount)

\* C1: in every persisted state of every row, is_paid is true if and only
\* if payment_status is 'completed'.
C1_PaidIffCompleted ==
    \A i \in Ids : purchases[i].is_paid <=> (purchases[i].payment_status = "completed")

\* C1 witness: after an administrative write, one row is paid and another
\* row is not.
C1_Witness ==
    /\ adminOps > 0
    /\ \E i \in Ids : purchases[i].is_paid
    /\ \E i \in Ids : purchases[i].payment_status \in {"pending", "failed"}

\* C2 (as claimed): paid_at is non-null if and only if the row has been
\* persisted in the paid state at least once.
C2_PaidAtIffEverPaid ==
    \A i \in Ids : (purchases[i].paid_at # Null) <=> everPaid[i]

\* C3 (as claimed): mark_as_paid on an instance that is already paid leaves
\* paid_at equal to the value the first call assigned.
C3_MarkAsPaidKeepsPaidAt ==
    [][(ModelMarkAsPaid /\ purchases[inst[1].id] = inst[1]
            /\ IsPaidRow(inst[1]) /\ inst[1].paid_at # Null)
          => purchases'[inst[1].id].paid_at = inst[1].paid_at]_vars

\* C4 (as claimed): a submission whose effective amount is below 1.00 fails
\* validation, persists no record and does not reach the engine.
C4_BelowMinimumRejected ==
    \A r \in Requests :
        (pc[r] # "start" /\ EffectiveAmount(posted[r]) < MinAmount)
        => (pc[r] = "form_invalid" /\ inst[r].id = 0)

\* C5: the step that accepts a valid submission appends one row that is
\* pending, unpaid, with null paid_at and empty transaction_id, and the
\* engine acts on a request only after that row was persisted.
C5_CreatedPending ==
    [][\A r \in Requests :
         /\ (pc[r] = "start" /\ pc'[r] = "saved")
               => /\ Len(purchases') = Len(purchases) + 1
                  /\ inst'[r].id = Len(purchases')
                  /\ AsCreated(purchases'[Len(purchases')])
                  /\ \A i \in Ids : purchases'[i] = purchases[i]
         /\ (pc[r] # "charged" /\ pc'[r] = "charged")
               => /\ pc[r] = "saved"
                  /\ inst[r].id \in Ids]_vars

\* C5 witness: a request has persisted its record and the engine has not
\* run on it yet.
C5_Witness ==
    \E r \in Requests : pc[r] = "saved" /\ AsCreated(purchases[inst[r].id])

\* the row as the engine leaves it for the request that created it
EnginePaid(r) ==
    LET row == purchases[inst[r].id]
    IN  /\ row.is_paid
        /\ row.payment_status = "completed"
        /\ row.paid_at # Null
        /\ \E t \in Times : row.transaction_id = <<"TXN", inst[r].id, t>>
        /\ row.mpesa_code = <<"MPE", inst[r].id>>

\* C6: without storage failures, every accepted submission leads to
\* process_payment returning True with the record persisted paid,
\* transaction_id TXN_<id>_<timestamp> and mpesa_code MPE<id>.
C6_EngineSucceeds ==
    \A r \in Requests :
        (pc[r] = "saved") ~> (pc[r] = "charged" /\ EnginePaid(r))

\* C6 witness: the engine has returned True for the second record.
C6_Witness ==
    \E r \in Requests : pc[r] = "charged" /\ inst[r].id = 2 /\ EnginePaid(r)

\* C7: with no administrative write, a request whose engine run failed
\* leaves its record exactly as created, a request whose creation failed
\* has no record, and no row shows part of the paid transition.
C7_NoPartialWrite ==
    /\ \A r \in Requests :
         pc[r] = "payment_failed"
            => (inst[r].id \in Ids /\ AsCreated(purchases[inst[r].id]))
    /\ \A r, q \in Requests : (inst[r].id # 0 /\ inst[r].id = inst[q].id) => r = q
    /\ Len(purchases) = Cardinality({r \in Requests : inst[r].id # 0})
    /\ \A i \in Ids :
         \/ AsCreated(purchases[i])
         \/ /\ IsPaidRow(purchases[i])
            /\ purchases[i].paid_at # Null
            /\ purchases[i].transaction_id # <<>>
            /\ purchases[i].mpesa_code # <<>>

\* C7 witness: the engine run of one request failed after the clock moved,
\* and the creation of another request's record failed.
C7_Witness ==
    /\ now > 1
    /\ \E r \in Requests : pc[r] = "payment_failed"
    /\ \E r \in Requests : pc[r] = "error" /\ inst[r].id = 0

\* C8 (as claimed): an answered request got the success redirect if and
\* only if its record is persisted paid; with the error answer its record,
\* if any, is persisted pending.
C8_RedirectIffPaid ==
    \A r \in Requests :
        /\ pc[r] = "redirect" => IsPaidRow(purchases[inst[r].id])
        /\ (pc[r] \in {"error", "payment_failed"} /\ inst[r].id # 0)
              => purchases[inst[r].id].payment_status = "pending"

\* C9 (as claimed): save persists payment_status 'completed' when is_paid
\* is true, and persists is_paid true when payment_status was 'completed'
\* while is_paid was false.
C9_SyncBothWays ==
    [][ModelSave =>
          /\ inst[1].is_paid
                => purchases'[inst[1].id].payment_status = "completed"
          /\ (~inst[1].is_paid /\ inst[1].payment_status = "completed")
                => purchases'[inst[1].id].is_paid]_vars

\* C9 (amended): save persists is_paid as it is on the instance; with
\* is_paid true it persists payment_status 'completed', and with is_paid
\* false and payment_status 'completed' it persists payment_status
\* 'pending' (is_paid stays false); any other status is persisted as is.
C9_StatusFollowsIsPaid ==
    [][ModelSave =>
          LET row == purchases'[inst[1].id]
          IN  /\ row.is_paid = inst[1].is_paid
              /\ inst[1].is_paid => row.payment_status = "completed"
              /\ (~inst[1].is_paid /\ inst[1].payment_status = "completed")
                    => row.payment_status = "pending"
              /\ (~inst[1].is_paid /\ inst[1].payment_status # "completed")
                    => row.payment_status = inst[1].payment_status]_vars

\* C9 witness: the row was persisted paid by one save and a later save of
\* the instance with is_paid false has persisted it pending again.
C9_Witness ==
    /\ pc[1] = "held"
    /\ everPaid[inst[1].id]
    /\ purchases[inst[1].id] = inst[1]
    /\ ~inst[1].is_paid
    /\ inst[1].payment_status = "pending"
    /\ inst[1].transaction_id = <<>>

\* C10: once paid_at of a row is non-null it is non-null in every later
\* persisted state.
C10_PaidAtNeverCleared ==
    [][\A i \in Ids : purchases[i].paid_at # Null
                        => purchases'[i].paid_at # Null]_vars

\* C10 witness: a row that was paid by the engine has been reverted to
\* pending by an administrative write and still carries its paid_at.
C10_Witness ==
    \E i \in Ids : /\ purchases[i].paid_at # Null
                   /\ ~purchases[i].is_paid
                   /\ purchases[i].payment_status = "pending"
                   /\ adminOps > 0
\* C11 (as claimed): paid_at of a row changes from null to a value only in
\* the engine's mark_as_paid on that row.
C11_OnlyMarkAsPaidAssigns ==
    [][\A i \in Ids :
         (purchases[i].paid_at = Null /\ purchases'[i].paid_at # Null)
            => \E r \in Requests : ProcessPayment(r) /\ inst[r].id = i]_vars

\* C11 (amended): paid_at of a row changes from null to a value only in
\* mark_as_paid on that row or in a save of the row with is_paid true and
\* payment_status 'completed' (the admin change form); the value is the
\* time of the write, a new row starts with paid_at null, and the bulk
\* actions never assign paid_at.
C11_MarkAsPaidOrSaveAssigns ==
    [][/\ \A i \in Ids :
            (purchases[i].paid_at = Null /\ purchases'[i].paid_at # Null)
               => /\ \/ \E r \in Requests : ProcessPayment(r) /\ inst[r].id = i
                     \/ AdminChange
                  /\ IsPaidRow(purchases'[i])
                  /\ purchases'[i].paid_at = now
       /\ \A i \in 1 .. Len(purchases') : i \notin Ids => purchases'[i].paid_at = Null
       /\ (admin_mark_as_paid \/ admin_mark_as_pending)
             => \A i \in Ids : purchases'[i].paid_at = purchases[i].paid_at]_vars

\* C11 witness: a row carries a paid_at that no engine run assigned (its
\* transaction_id is empty): the save of the admin change form stamped it.
C11_Witness ==
    \E i \in Ids : /\ purchases[i].paid_at # Null
                   /\ purchases[i].transaction_id = <<>>
                   /\ adminOps > 0

\* C13: with no administrative write, every row's payment_status is
\* 'pending' or 'completed', whether engine runs succeeded or failed.
C13_EngineStatuses ==
    \A i \in Ids : purchases[i].payment_status \in {"pending", "completed"}

\* C13 witness: one engine run succeeded and another failed.
C13_Witness ==
    /\ \E r \in Requests : pc[r] = "payment_failed"
                           /\ purchases[inst[r].id].payment_status = "pending"
    /\ \E r \in Requests : pc[r] \in {"charged", "redirect"}
                           /\ purchases[inst[r].id].payment_status = "completed"

\* C14: no step of a submission or of the engine, the second save of the
\* form instance included, takes a persisted row out of 'completed'.
C14_OnlyAdminLeavesCompleted ==
    [][(Donation \/ Faults)
          => \A i \in Ids : purchases[i].payment_status = "completed"
                               => purchases'[i].payment_status = "completed"]_vars

\* C14 witness: the second save of a request was written to a row that an
\* administrative write had touched, and the row is 'completed'.
C14_Witness ==
    \E r \in Requests : /\ pc[r] = "redirect"
                        /\ adminOps > 0
                        /\ purchases[inst[r].id].payment_status = "completed"

\* C17: an engine run or second save of a request changes no row but the one
\* the request created, and when all requests are answered their records
\* are distinct and each is paid with its own id in transaction_id and
\* mpesa_code.
C17_SubmissionsIndependent ==
    [][/\ \A r \in Requests :
            (ProcessPayment(r) \/ FormValidSuper(r))
               => \A i \in Ids : i # inst[r].id => purchases'[i] = purchases[i]
       /\ (\A r \in Requests : pc'[r] = "redirect")
             => /\ Len(purchases') = MaxRequests
                /\ \A r, q \in Requests : inst'[r].id = inst'[q].id => r = q
                /\ \A r \in Requests :
                     LET row == purchases'[inst'[r].id]
                     IN  /\ IsPaidRow(row)
                         /\ \E t \in Times :
                              row.transaction_id = <<"TXN", inst'[r].id, t>>
                         /\ row.mpesa_code = <<"MPE", inst'[r].id>>]_vars

\* C17 witness: two submissions overlapped (the second was accepted before
\* the first was charged) and both are answered with the redirect.
C17_Witness ==
    /\ \A r \in Requests : pc[r] = "redirect"
    /\ Len(purchases) = MaxRequests
    /\ purchases[1].paid_at > 1
\* C12 (as claimed): every write that changes a row, the bulk actions
\* included, sets its updated_at to the time of the write and leaves its
\* created_at as it was.
C12_WritesRefreshUpdatedAt ==
    [][\A i \in Ids :
         purchases'[i] # purchases[i]
            => /\ purchases'[i].updated_at = now
               /\ purchases'[i].created_at = purchases[i].created_at]_vars
\* what a bulk action on the selected rows S may do: the two columns of the
\* rows of S take the action's values, nothing else in the table changes,
\* and the count reported is the number of rows of S
BulkEffect(S, paid, status) ==
    /\ Len(purchases') = Len(purchases)
    /\ \A i \in S :
         purchases'[i] = [purchases[i] EXCEPT !.is_paid = paid,
                                              !.payment_status = status]
    /\ \A i \in Ids \ S : purchases'[i] = purchases[i]
    /\ reported' = Cardinality(S)

\* C15: a bulk action sets is_paid and payment_status of exactly the selected
\* rows (true/completed for mark as paid, false/pending for mark as pending),
\* leaves the unselected rows and every other field of the selected rows
\* unchanged, and reports the number of selected rows.
C15_BulkActionFrame ==
    [][/\ admin_mark_as_paid
            => \E S \in SUBSET Ids : S # {} /\ BulkEffect(S, TRUE, "completed")
       /\ admin_mark_as_pending
            => \E S \in SUBSET Ids : S # {} /\ BulkEffect(S, FALSE, "pending")]_vars

C15_Witness ==
    /\ reported = 1
    /\ Len(purchases) = 2
    /\ \E i, j \in Ids :
         /\ purchases[i].is_paid /\ purchases[i].transaction_id = <<>>
         /\ purchases[i].amount > 0
         /\ ~purchases[j].is_paid /\ purchases[j].payment_status = "pending"
\* C16 (as claimed): the engine's writes are read-modify-writes of the row
\* as it is stored, so that with an administrative write committed during
\* the payment delay the row ends as in the serial order "admin, then
\* engine" and the admin's update is kept.
C16_EngineWritesSerialise ==
    [][\A r \in Requests :
         /\ ProcessPayment(r)
              => purchases'[inst[r].id]
                   = save(mark_as_paid(purchases[inst[r].id],
                                       TransactionId(inst[r], now),
                                       MpesaCode(inst[r]), now),
                          now, purchases)
         /\ FormValidSuper(r)
              => purchases'[inst[r].id]
                   = save(purchases[inst[r].id], now, purchases)]_vars
\* C18 (as claimed): the listing holds only paid records with a public
\* message, at most 10 of them, in descending order of paid_at (a record
\* without paid_at counted as the oldest).
C18_ListingByPaidAtDesc ==
    [][GetContextData =>
         /\ Len(recent_supporters') <= SupportersLimit
         /\ \A a \in DOMAIN recent_supporters' :
              LET row == purchases[recent_supporters'[a]]
              IN  row.is_paid /\ row.public_message
         /\ \A a, b \in DOMAIN recent_supporters' :
              a < b => purchases[recent_supporters'[a]].paid_at
                          >= purchases[recent_supporters'[b]].paid_at]_vars
\* C19 (as claimed): an accepted submission persists the custom amount when
\* one is supplied and otherwise the preset, which is one of the choices; a
\* submission whose preset is missing or not one of the choices is rejected
\* and persists nothing.
C19_PersistedAmount ==
    [][\A r \in Requests :
         (pc[r] = "start" /\ pc'[r] # "start")
            => /\ pc'[r] = "saved"
                    => /\ posted'[r].amount \in AMOUNT_CHOICES
                       /\ purchases'[inst'[r].id].amount
                             = EffectiveAmount(posted'[r])
               /\ posted'[r].amount \notin AMOUNT_CHOICES
                    => pc'[r] = "form_invalid" /\ purchases' = purchases]_vars
\* C20 (as claimed): the coffee count read for a record is
\* floor(amount / 3.00) of its stored amount, and reading it changes no
\* stored field.
C20_CoffeeCountIsFloor ==
    [][CoffeeCountDisplay =>
         /\ ~coffee_count_display'.raised
         /\ coffee_count_display'.value
               = purchases[coffee_count_display'.id].amount \div 300
         /\ purchases' = purchases]_vars
\* C21: the display name of a record is its name when that is not empty;
\* otherwise, when the email is not empty, the part of the email before its
\* first '@'; otherwise the label 'Anonymous Supporter'.
C21_DisplayName ==
    [][DisplayNameCell =>
         LET row == purchases[display_name_cell'.id]
             shown == display_name_cell'.value
         IN  /\ row.name # <<>> => shown = row.name
             /\ (row.name = <<>> /\ row.email # <<>>)
                  => /\ Len(shown) <= Len(row.email)
                     /\ shown = SubSeq(row.email, 1, Len(shown))
                     /\ \A k \in DOMAIN shown : shown[k] # "@"
                     /\ Len(shown) < Len(row.email)
                           => row.email[Len(shown) + 1] = "@"
             /\ (row.name = <<>> /\ row.email = <<>>)
                  => shown = AnonymousSupporter]_vars

C21_Witness ==
    /\ display_name_cell.id \in Ids
    /\ purchases[display_name_cell.id].name = <<>>
    /\ Len(purchases[display_name_cell.id].email) = 7
    /\ display_name_cell.value = <<"q", "e">>
    /\ \E i \in Ids : purchases[i].name # <<>> /\ purchases[i].email # <<>>
\* C22: whatever save and load calls are made, the SiteSettings table has at
\* most one row and its pk is 1; load creates the row with the defaults when
\* there is none and otherwise returns the stored row and changes nothing;
\* save of any instance makes that instance, with pk 1, the one row.
C22_SettingsSingleton ==
    [][/\ Cardinality(settings') <= 1
       /\ \A row \in settings' : row.pk = 1
       /\ \A r \in Requests :
            /\ SettingsLoad(r)
                 => /\ settings = {} => settings' = {NewSettings(1)}
                    /\ settings # {} => settings' = settings
                    /\ settings' = {settings_obj'[r]}
            /\ SettingsSave(r)
                 => settings' = {[settings_obj[r] EXCEPT !.pk = 1]}]_vars

C22_Witness ==
    /\ settings = {[pk |-> 1, site_name |-> "Other", coffee_enabled |-> FALSE]}
    /\ \E r, q \in Requests :
         /\ settings_obj[r] # NoObject
         /\ settings_obj[r].pk = 2
         /\ settings_obj[r].site_name = "Marube Snipher Abel"
         /\ settings_obj[q] \in settings
RECURSIVE ViewsOf(_)
ViewsOf(rs) ==
    IF rs = {} THEN 0
    ELSE LET r == CHOOSE r \in rs : TRUE
         IN  viewer[r].views + ViewsOf(rs \ {r})

\* C23 (as claimed): the stored view_count is the number of detail-page
\* views that have been answered, whatever the interleaving of the requests.
C23_ViewCountCountsViews == view_count = ViewsOf(Requests)
\* C24 (as claimed): a valid submission adds one row and no later step of
\* the request adds another; the second save of the success path leaves
\* is_paid, payment_status, paid_at, transaction_id and mpesa_code of the
\* request's row as they are stored.
C24_SecondSaveChangesNothing ==
    [][\A r \in Requests :
         /\ (pc[r] = "start" /\ pc'[r] = "saved")
               => Len(purchases') = Len(purchases) + 1
         /\ (pc[r] # "start" /\ (ProcessPayment(r) \/ FormValidSuper(r)))
               => Len(purchases') = Len(purchases)
         /\ FormValidSuper(r)
               => LET old == purchases[inst[r].id]
                      new == purchases'[inst[r].id]
                  IN  /\ new.is_paid = old.is_paid
                      /\ new.payment_status = old.payment_status
                      /\ new.paid_at = old.paid_at
                      /\ new.transaction_id = old.transaction_id
                      /\ new.mpesa_code = old.mpesa_code]_vars
\* C25: the row the donation form creates has public_message false,
\* currency 'USD' and payment_method 'mpesa'; only a save of the admin
\* change form turns public_message of a row to true; and the listing shows
\* only rows whose public_message is true.
C25_PublishedOnlyByAdmin ==
    [][/\ \A r \in Requests :
            (pc[r] = "start" /\ pc'[r] = "saved")
               => LET row == purchases'[inst'[r].id]
                  IN  /\ ~row.public_message
                      /\ row.currency = "USD"
                      /\ row.payment_method = "mpesa"
       /\ \A i \in Ids :
            (~purchases[i].public_message /\ purchases'[i].public_message)
               => AdminChangeForm
       /\ GetContextData
            => \A a \in DOMAIN recent_supporters' :
                  purchases[recent_supporters'[a]].public_message]_vars

C25_Witness ==
    /\ Len(recent_supporters) = 1
    /\ Len(purchases) = 2
    /\ purchases[recent_supporters[1]].public_message
    /\ \E i \in Ids : /\ purchases[i].is_paid
                      /\ purchases[i].transaction_id # <<>>
                      /\ ~purchases[i].public_message
\* C26: the thank-you page a submission is redirected to shows a paid row
\* whose created_at is the greatest of all paid rows, whoever submitted it,
\* and nothing when no row is paid; it shows the submitter's own row only
\* when no other paid row was created later.
C26_ThankyouShowsLatestPaid ==
    [][\A r \in Requests :
         CoffeeThankyou(r)
            => LET shown == thankyou'[r][1]
                   paid == {i \in Ids : purchases[i].is_paid}
               IN  /\ paid = {} <=> shown = 0
                   /\ paid # {}
                        => /\ shown \in paid
                           /\ \A j \in paid : purchases[j].created_at
                                                 <= purchases[shown].created_at
                   /\ shown = inst[r].id
                        => \A j \in paid : purchases[j].created_at
                                              <= purchases[inst[r].id].created_at]_vars

\* a submitter whose own row is paid is shown the row of a later submitter
C26_Witness ==
    \E r \in Requests :
        /\ pc[r] = "thanked"
        /\ thankyou[r] # NotRendered
        /\ thankyou[r][1] \notin {0, inst[r].id}
        /\ purchases[inst[r].id].is_paid
        /\ purchases[thankyou[r][1]].created_at
              > purchases[inst[r].id].created_at
====
